---- MODULE Spec2Model ----
(***************************************************************************)
(* Model of sandman2/app.py: application construction (get_app), the three *)
(* discovery drivers (_register_user_models, _reflect_all,                 *)
(* _register_view_models), register_model, register_service and the index  *)
(* endpoint.                                                               *)
(*                                                                         *)
(* Strings that the code splits are sequences of tokens in which "/" and   *)
(* "," are tokens of their own; every other string is a TLA+ string.       *)
(***************************************************************************)
EXTENDS Integers, Sequences, FiniteSets, TLC

VARIABLES
    exclude_tables,     \* get_app parameter; None and [] both behave as {}
    user_models,        \* get_app parameter; None and [] both behave as <<>>
    reflect_all,        \* get_app parameter
    read_only,          \* get_app parameter
    str_viewpktype,     \* get_app parameter: [is_none, s]
    app,                \* the Flask application: classes, url_map, view_functions
    l_viewpktype_tuple, \* the parsed view spec (get_app, line 68)
    pc,                 \* position of get_app
    i,                  \* index of the loop that is running
    raised,             \* the exception that left get_app, "" when none
    index_response      \* the last response of GET /

vars == <<exclude_tables, user_models, reflect_all, read_only, str_viewpktype,
          app, l_viewpktype_tuple, pc, i, raised, index_response>>

config == <<exclude_tables, user_models, reflect_all, read_only, str_viewpktype>>

(***************************************************************************)
(* Bounds                                                                  *)
(***************************************************************************)
MaxUserModels == 2

(***************************************************************************)
(* str.lower() on the names that occur.                                    *)
(***************************************************************************)
Lower(s) ==
    CASE s = "Orders" -> "orders"
      [] s = "Users"  -> "users"
      [] s = "Items"  -> "items"
      [] s = "Notes"  -> "notes"
      [] OTHER        -> s

(***************************************************************************)
(* sqlalchemy.sql.sqltypes: the class hierarchy isinstance() walks.        *)
(***************************************************************************)
TypeBase(t) ==
    CASE t = "Text"       -> "String"
      [] t = "BigInteger" -> "Integer"
      [] t = "Float"      -> "Numeric"
      [] OTHER            -> "TypeEngine"

RECURSIVE isinstance(_, _)
isinstance(t, c) ==
    IF t = c THEN TRUE
    ELSE IF t = "TypeEngine" THEN FALSE
    ELSE isinstance(TypeBase(t), c)

(***************************************************************************)
(* Model classes.  has_methods says whether '__methods__' is in the        *)
(* class's own __dict__; pk is list(__table__.primary_key.columns).        *)
(***************************************************************************)
Col(n, t) == [name |-> n, type |-> t]

ModelClass(n, tbl, hm, ms, pk, attrs) ==
    [name |-> n, table |-> tbl, has_methods |-> hm, methods |-> ms,
     pk |-> pk, attrs |-> attrs, url |-> ""]

UserClasses ==
    { ModelClass("Orders", "orders", TRUE, {"GET", "POST", "PUT", "DELETE"},
                 <<Col("id", "Integer")>>, {}),
      ModelClass("Users", "users", FALSE, {},
                 <<Col("name", "Text")>>, {}),
      ModelClass("Items", "items", TRUE, {"GET"},
                 <<Col("a", "BigInteger"), Col("b", "String")>>, {}),
      ModelClass("Notes", "notes", FALSE, {}, <<>>, {}),
      ModelClass("orders", "orders_archive", TRUE, {"POST"},
                 <<Col("k", "Boolean")>>, {}) }

\* AutomapModel.classes after prepare(): one class per reflected table,
\* named after the table.
AutomapClasses ==
    << ModelClass("orders", "orders", FALSE, {}, <<Col("id", "Integer")>>, {}),
       ModelClass("users", "users", FALSE, {}, <<Col("name", "String")>>, {}),
       ModelClass("prices", "prices", FALSE, {}, <<Col("amount", "Numeric")>>, {}),
       ModelClass("events", "events", FALSE, {}, <<Col("ts", "DateTime")>>, {}),
       ModelClass("pairs", "pairs", FALSE, {},
                  <<Col("x", "Integer"), Col("y", "Integer")>>, {}) >>

\* The columns the database reports for a relation (Table(..., autoload=True)).
ReflectedColumns(view_name) ==
    CASE view_name = "reports" -> {"report_id", "title", "total"}
      [] view_name = "logs"    -> {"log_id", "msg"}
      [] view_name = "orders"  -> {"id", "customer"}
      [] OTHER                 -> {}

ExcludeChoices == { {}, {"orders"}, {"orders", "users", "reports"} }

ViewSpecStrings ==
    { <<"reports", "/", "report_id", "/", "int", ",",
        "logs", "/", "log_id", "/", "string">>,
      <<"logs", "/", "log_id", "/", "float">>,
      <<"reports", "/", "report_id", "/", "bogus">>,
      <<"logs", "/", "log_id">>,
      <<"reports", "/", "report_id", "/", "int", "/", "extra">>,
      <<"orders", "/", "id", "/", "int">>,
      <<"logs", "/", "log_id", "/", "int", ",", "logs", "/", "log_id", "/", "int">>,
      <<>> }

RECURSIVE SeqsUpTo(_, _)
SeqsUpTo(S, n) ==
    IF n = 0 THEN { <<>> }
    ELSE LET shorter == SeqsUpTo(S, n - 1)
         IN  shorter \cup { Append(s, x) : s \in shorter, x \in S }

(***************************************************************************)
(* str.split(sep) and the string a token sequence stands for.              *)
(***************************************************************************)
RECURSIVE split(_, _)
split(s, sep) ==
    IF \A k \in 1..Len(s) : s[k] # sep THEN << s >>
    ELSE LET k == CHOOSE k \in 1..Len(s) :
                      s[k] = sep /\ \A j \in 1..(k - 1) : s[j] # sep
         IN  << SubSeq(s, 1, k - 1) >> \o split(SubSeq(s, k + 1, Len(s)), sep)

RECURSIVE str(_)
str(toks) == IF toks = <<>> THEN "" ELSE toks[1] \o str(Tail(toks))

\* line 68: tuple(str_view.split('/'))
SplitFields(str_view) ==
    LET fields == split(str_view, "/")
    IN  [k \in 1..Len(fields) |-> str(fields[k])]

\* line 68: list(map(lambda str_view: ..., str_viewpktype.split(',')))
ParseViewSpec(s) ==
    LET views == split(s, ",")
    IN  [k \in 1..Len(views) |-> SplitFields(views[k])]

(***************************************************************************)
(* Flask.add_url_rule: the rule enters the URL map, then the endpoint is   *)
(* bound to the view function; an endpoint that is already bound to a      *)
(* different view function raises AssertionError.  a is [app, exc]; once   *)
(* exc is set the remaining calls of the caller do not happen.             *)
(***************************************************************************)
add_url_rule(a, rule, view_func, methods) ==
    IF a.exc # "" THEN a
    ELSE LET endpoint == view_func.name
             mapped   == [a.app EXCEPT !.url_map = @ \cup
                             { [rule |-> rule, endpoint |-> endpoint,
                                methods |-> methods] }]
         IN  IF \E f \in a.app.view_functions :
                    f.name = endpoint /\ f.id # view_func.id
             THEN [app |-> mapped, exc |-> "AssertionError"]
             ELSE [app |-> [mapped EXCEPT !.view_functions = @ \cup {view_func}],
                   exc |-> ""]

\* line 111: cls.as_view(cls.__name__.lower()).  The service class is named
\* <model name> + 'Service' (line 161); every call makes a new function.
as_view(cls, flask) ==
    [name |-> Lower(cls.model.name) \o "service", id |-> Len(flask.classes) + 1]

\* a default that also lets unrestricted resources be modified in place
DefaultMethodsWide == {"GET", "POST", "PUT", "PATCH", "DELETE"}

\* line 115
DefaultMethods == {"GET", "POST"}

\* lines 112-115
AllowedMethods(model) ==
    IF model.has_methods THEN model.methods ELSE DefaultMethods

\* the item rule bound with the whole method set
ItemMethodsAll(methods) == methods

\* lines 129-134: the methods bound on the item rule
ItemMethods(methods) == methods \ {"POST"}

\* lines 119, 123, 128, 130-132: the rule strings
CollectionRule(url) == url \o "/"
MetaRule(url) == url \o "/meta"
ItemRule(url, pk_type) == url \o "/<" \o pk_type \o ":resource_id>"

(***************************************************************************)
(* register_service(cls, primary_key_type), lines 104-135.                 *)
(***************************************************************************)
register_service(a, cls, primary_key_type) ==
    LET view_func == as_view(cls, a.app)
        methods   == AllowedMethods(cls.model)
        url       == cls.model.url
        a1 == IF "GET" \in methods
              THEN add_url_rule(
                       add_url_rule(a, CollectionRule(url), view_func, {"GET"}),
                       MetaRule(url), view_func, {"GET"})
              ELSE a
        a2 == IF "POST" \in methods
              THEN add_url_rule(a1, CollectionRule(url), view_func, {"POST"})
              ELSE a1
        a3 == add_url_rule(a2, ItemRule(url, primary_key_type), view_func,
                           ItemMethods(methods))
    IN  IF a3.exc # "" THEN a3
        ELSE [a3 EXCEPT !.app.classes = Append(@, cls)]

\* the type of the first key column, without the composite-key test
PrimaryKeyTypeFirstColumn(cols) ==
    IF Len(cols) >= 1
    THEN LET col_type == cols[1].type
         IN  IF isinstance(col_type, "String") THEN "string"
             ELSE IF isinstance(col_type, "Integer") THEN "int"
             ELSE IF isinstance(col_type, "Numeric") THEN "float"
             ELSE "string"
    ELSE "string"

\* lines 167-180
PrimaryKeyType(cols) ==
    IF Len(cols) = 1
    THEN LET col_type == cols[1].type
         IN  IF isinstance(col_type, "String") THEN "string"
             ELSE IF isinstance(col_type, "Integer") THEN "int"
             ELSE IF isinstance(col_type, "Numeric") THEN "float"
             ELSE "string"
    ELSE "string"

(***************************************************************************)
(* register_model(cls, admin), lines 154-185.  The admin view added on     *)
(* line 185 belongs to the administrative UI and binds no API route.       *)
(***************************************************************************)
register_model(a, cls) ==
    LET model         == [cls EXCEPT !.url = "/" \o Lower(cls.name)]
        service_class == [name |-> cls.name \o "Service", model |-> model]
    IN  register_service(a, service_class, PrimaryKeyType(model.pk))

(***************************************************************************)
(* get_app, lines 51-58: the state after construction of the Flask object. *)
(***************************************************************************)
NoResponse == [status |-> 0, body |-> {}]

Init ==
    /\ exclude_tables \in ExcludeChoices
    /\ user_models \in SeqsUpTo(UserClasses, MaxUserModels)
    /\ reflect_all \in BOOLEAN
    /\ read_only \in BOOLEAN
    /\ str_viewpktype \in
           { [is_none |-> TRUE, s |-> <<>>] } \cup
           { [is_none |-> FALSE, s |-> v] : v \in ViewSpecStrings }
    /\ app = [classes |-> <<>>, url_map |-> {}, view_functions |-> {}]
    /\ l_viewpktype_tuple = <<>>
    /\ pc = "discover"
    /\ i = 1
    /\ raised = ""
    /\ index_response = NoResponse

\* full reflection tested before the explicit list
BranchReflectFirst(models, reflect) ==
    IF reflect THEN "reflect_all"
    ELSE IF models # <<>> THEN "user_models"
    ELSE "view_spec"

\* lines 59-66: which discovery driver runs first
Branch(models, reflect) ==
    IF models # <<>> THEN "user_models"
    ELSE IF reflect THEN "reflect_all"
    ELSE "view_spec"

Discover ==
    /\ pc = "discover"
    /\ pc' = Branch(user_models, reflect_all)
    /\ i' = 1
    /\ UNCHANGED <<config, app, l_viewpktype_tuple, raised, index_response>>

\* One iteration of a registration loop whose body left the result r: an
\* exception leaves get_app, otherwise the loop goes on or get_app moves on.
LoopStep(r, last, after) ==
    /\ app' = r.app
    /\ IF r.exc # ""
       THEN /\ pc' = "aborted"
            /\ raised' = r.exc
            /\ i' = i
       ELSE /\ raised' = raised
            /\ IF i = last
               THEN pc' = after /\ i' = 1
               ELSE pc' = pc /\ i' = i + 1
    /\ UNCHANGED <<config, l_viewpktype_tuple, index_response>>

Running == [app |-> app, exc |-> ""]

\* _register_user_models, lines 198-199 (prepare() on lines 194-196 only
\* fills AutomapModel.classes, which this driver does not read)
RegisterUserModel ==
    /\ pc = "user_models"
    /\ LoopStep(register_model(Running, user_models[i]),
                Len(user_models), "view_spec")

\* line 147
Excluded(cls, exclude) == exclude # {} /\ cls.table \in exclude

\* lines 149-150
RestrictMethods(cls, ro) ==
    IF ro THEN [cls EXCEPT !.has_methods = TRUE, !.methods = {"GET"}] ELSE cls

\* _reflect_all, lines 146-151
ReflectTable ==
    /\ pc = "reflect_all"
    /\ LET cls == AutomapClasses[i]
       IN  LoopStep(IF Excluded(cls, exclude_tables) THEN Running
                    ELSE register_model(Running, RestrictMethods(cls, read_only)),
                    Len(AutomapClasses), "view_spec")

\* get_app, lines 66-68, and the return on line 80 when there is no view spec
SplitViewSpec ==
    /\ pc = "view_spec"
    /\ IF str_viewpktype.is_none
       THEN pc' = "serving" /\ l_viewpktype_tuple' = l_viewpktype_tuple
       ELSE pc' = "views" /\ l_viewpktype_tuple' = ParseViewSpec(str_viewpktype.s)
    /\ i' = 1
    /\ UNCHANGED <<config, app, raised, index_response>>

\* the int tag falling through to the last branch
ViewPkTypeNoInt(pktype_str) ==
    IF pktype_str = "string" THEN "String"
    ELSE "Float"

\* lines 212-220
ViewPkType(pktype_str) ==
    IF pktype_str = "string" THEN "String"
    ELSE IF pktype_str = "int" THEN "Integer"
    ELSE "Float"

\* lines 222-244: the synthesized class, with one declared primary key and
\* every other column of the reflected table as a nullable attribute
ViewModelClass(view_name, pk_name, pktype_str) ==
    LET columns == ReflectedColumns(view_name) \cup {pk_name}
    IN  ModelClass(view_name, view_name, FALSE, {},
                   << Col(pk_name, ViewPkType(pktype_str)) >>,
                   { [name |-> col_name, nullable |-> TRUE] :
                         col_name \in { c \in columns : c # pk_name } })

\* _register_view_models, lines 207-245: one iteration
register_view_model(a, viewpktype_tuple) ==
    IF Len(viewpktype_tuple) < 3 THEN [a EXCEPT !.exc = "IndexError"]
    ELSE register_model(a, ViewModelClass(viewpktype_tuple[1],
                                          viewpktype_tuple[2],
                                          viewpktype_tuple[3]))

RegisterViewModel ==
    /\ pc = "views"
    /\ LoopStep(register_view_model(Running, l_viewpktype_tuple[i]),
                Len(l_viewpktype_tuple), "serving")

\* Model.primary_key(): the name of the model's primary-key column
primary_key(model) == model.pk[1].name

\* lines 76-78
IndexEntry(model) == model.url \o "{/" \o primary_key(model) \o "}"

\* lines 74-78: a dict, so a later class of the same name replaces the entry
IndexRoutes(classes) ==
    { [key |-> classes[k].model.name, value |-> IndexEntry(classes[k].model)] :
        k \in { k \in 1..Len(classes) :
                  \A j \in (k + 1)..Len(classes) :
                      classes[j].model.name # classes[k].model.name } }

\* GET /, lines 71-79; a model without a primary-key column has no
\* primary_key() to format and the request fails
index ==
    /\ pc = "serving"
    /\ index_response' =
           IF \E k \in 1..Len(app.classes) : app.classes[k].model.pk = <<>>
           THEN [status |-> 500, body |-> {}]
           ELSE [status |-> 200, body |-> IndexRoutes(app.classes)]
    /\ UNCHANGED <<config, app, l_viewpktype_tuple, pc, i, raised>>

Next ==
    \/ Discover
    \/ RegisterUserModel
    \/ ReflectTable
    \/ SplitViewSpec
    \/ RegisterViewModel
    \/ index

Spec == Init /\ [][Next]_vars

(***************************************************************************)
(* Vocabulary of the properties                                            *)
(***************************************************************************)
Registered == { app.classes[k] : k \in 1..Len(app.classes) }

Endpoint(cls) == Lower(cls.model.name) \o "service"

RulesOf(cls) == { r \in app.url_map : r.endpoint = Endpoint(cls) }

Bound(cls, rule, methods) ==
    [rule |-> rule, endpoint |-> Endpoint(cls), methods |-> methods] \in app.url_map

RouteTypes == {"string", "int", "float"}

ItemRulesOf(cls) ==
    { r \in RulesOf(cls) :
        \E t \in RouteTypes : r.rule = ItemRule(cls.model.url, t) }

Names(classes) == [k \in 1..Len(classes) |-> classes[k].model.name]

UserNames == [k \in 1..Len(user_models) |-> user_models[k].name]

ReflectedNames ==
    LET kept(cls) == cls.table \notin exclude_tables
        picked == SelectSeq(AutomapClasses, kept)
    IN  [k \in 1..Len(picked) |-> picked[k].name]

ViewNames ==
    IF str_viewpktype.is_none THEN <<>>
    ELSE LET parsed == ParseViewSpec(str_viewpktype.s)
         IN  [k \in 1..Len(parsed) |-> parsed[k][1]]

Started == pc = "serving"

(***************************************************************************)
(* C1.  With the read-only flag set, every registered resource has allowed *)
(* methods exactly {GET} and no rule binds another method, whichever       *)
(* driver registered it.                                                   *)
(***************************************************************************)
C1_ReadOnlyForcesGet ==
    (Started /\ read_only) =>
        /\ \A cls \in Registered : AllowedMethods(cls.model) = {"GET"}
        /\ \A r \in app.url_map : r.methods \subseteq {"GET"}

TypeFamily(t) ==
    CASE t \in {"String", "Text"}        -> "character"
      [] t \in {"Integer", "BigInteger"} -> "integral"
      [] t \in {"Numeric", "Float"}      -> "decimal"
      [] OTHER                           -> "other"

RuleTable(pk) ==
    IF Len(pk) > 1 THEN "string"
    ELSE IF Len(pk) = 0 THEN "string"
    ELSE CASE TypeFamily(pk[1].type) = "character" -> "string"
           [] TypeFamily(pk[1].type) = "integral"  -> "int"
           [] TypeFamily(pk[1].type) = "decimal"   -> "float"
           [] OTHER                                -> "string"

C3_RouteTypeRuleTable ==
    /\ \A cls \in Registered :
           \A r \in ItemRulesOf(cls) :
               r.rule = ItemRule(cls.model.url, RuleTable(cls.model.pk))
    /\ \A cls \in Registered : ItemRulesOf(cls) # {}
    /\ raised \in {"", "AssertionError", "IndexError"}

C3_Witness ==
    /\ Started
    /\ \E cls \in Registered : Len(cls.model.pk) > 1
    /\ \E cls \in Registered :
           Len(cls.model.pk) = 1 /\ TypeFamily(cls.model.pk[1].type) = "decimal"
    /\ \E cls \in Registered :
           Len(cls.model.pk) = 1 /\ TypeFamily(cls.model.pk[1].type) = "integral"
    /\ \E cls \in Registered :
           Len(cls.model.pk) = 1 /\ TypeFamily(cls.model.pk[1].type) = "other"

(***************************************************************************)
(* C4.  The index response has exactly one entry per registered resource,  *)
(* keyed by its name, whose value is the URL prefix followed by a template *)
(* that embeds one of the resource's own primary-key column names.         *)
(***************************************************************************)
C4_IndexOneEntryPerResource ==
    index_response # NoResponse =>
        /\ index_response.status = 200
        /\ Cardinality(index_response.body) = Len(app.classes)
        /\ \A cls \in Registered :
               \E e \in index_response.body :
                   /\ e.key = cls.model.name
                   /\ \E k \in 1..Len(cls.model.pk) :
                          e.value = cls.model.url \o "{/" \o
                                    cls.model.pk[k].name \o "}"

(***************************************************************************)
(* C5.  No registered resource is backed by a table of the exclusion set,  *)
(* whichever drivers ran.                                                  *)
(***************************************************************************)
C5_ExcludedNeverRegistered ==
    Started =>
        \A cls \in Registered :
            /\ cls.model.table \notin exclude_tables
            /\ RulesOf(cls) # {}

(***************************************************************************)
(* C6.  For a resource registered with allowed methods M the rules are     *)
(* exactly: GET on the collection path and GET on /meta iff GET is in M;   *)
(* POST on the collection path iff POST is in M; the item path for         *)
(* M \ {POST}.  POST is never bound on the item path.  (An application     *)
(* whose construction raised is never returned; its URL map is not read.)  *)
(***************************************************************************)
C6_ExactRoutes ==
    pc # "aborted" =>
    \A cls \in Registered :
        LET M   == AllowedMethods(cls.model)
            url == cls.model.url
        IN  /\ Bound(cls, url \o "/", {"GET"}) <=> "GET" \in M
            /\ Bound(cls, url \o "/meta", {"GET"}) <=> "GET" \in M
            /\ Bound(cls, url \o "/", {"POST"}) <=> "POST" \in M
            /\ Cardinality(ItemRulesOf(cls)) = 1
            /\ \A r \in ItemRulesOf(cls) :
                   r.methods = M \ {"POST"} /\ "POST" \notin r.methods
            /\ \A r \in RulesOf(cls) \ ItemRulesOf(cls) :
                   \/ r.rule = url \o "/" /\ r.methods \in {{"GET"}, {"POST"}}
                   \/ r.rule = url \o "/meta" /\ r.methods = {"GET"}
            /\ M = {"GET"} => Cardinality(RulesOf(cls)) = 3

C6_Witness ==
    /\ Started
    /\ \E cls \in Registered :
           AllowedMethods(cls.model) = {"GET", "POST", "PUT", "DELETE"}
    /\ \E cls \in Registered : AllowedMethods(cls.model) = {"GET"}

(***************************************************************************)
(* C7.  With the read-only flag unset, a resource that declares no methods *)
(* has allowed methods exactly {GET, POST}, and its item rule binds GET    *)
(* only.                                                                   *)
(***************************************************************************)
C7_DefaultMethods ==
    ~read_only =>
        \A cls \in Registered :
            ~cls.model.has_methods =>
                /\ UNION { r.methods : r \in RulesOf(cls) } = {"GET", "POST"}
                /\ Bound(cls, cls.model.url \o "/", {"POST"})
                /\ \A r \in ItemRulesOf(cls) : r.methods = {"GET"}
                /\ ItemRulesOf(cls) # {}

C7_Witness ==
    /\ Started
    /\ ~read_only
    /\ \E cls \in Registered : ~cls.model.has_methods

(***************************************************************************)
(* C8.  A resource without primary-key columns is never registered, and    *)
(* construction does not complete when one is supplied.                    *)
(***************************************************************************)
C8_NoPrimaryKeyIsFatal ==
    /\ \A cls \in Registered : cls.model.pk # <<>> /\ RulesOf(cls) # {}
    /\ Started =>
           (user_models # <<>> =>
                \A k \in 1..Len(user_models) : user_models[k].pk # <<>>)

(***************************************************************************)
(* C9.  Construction completes with a view spec only when every entry has  *)
(* exactly three fields and a type tag among string, int, float.           *)
(***************************************************************************)
C9_UnparseableSpecIsFatal ==
    (Started /\ ~str_viewpktype.is_none) =>
        LET parsed == ParseViewSpec(str_viewpktype.s)
        IN  \A k \in 1..Len(parsed) :
                /\ Len(parsed[k]) = 3
                /\ parsed[k][3] \in {"string", "int", "float"}

(***************************************************************************)
(* C10.  After construction with a well-formed view spec of n entries, the *)
(* last n resources of the registry are the n entries in order, nothing    *)
(* else was added by the view driver, each has the entry's pk_name as its  *)
(* single primary key, an item rule typed by the entry's tag, and one      *)
(* nullable attribute for every reflected column but the primary key.      *)
(***************************************************************************)
WellFormed(parsed) ==
    \A k \in 1..Len(parsed) :
        Len(parsed[k]) = 3 /\ parsed[k][3] \in {"string", "int", "float"}

PreViewCount ==
    IF user_models # <<>> THEN Len(user_models)
    ELSE IF reflect_all THEN Len(ReflectedNames)
    ELSE 0

SpecExample ==
    <<"reports", "/", "report_id", "/", "int", ",",
      "logs", "/", "log_id", "/", "string">>

C10_ViewsRegistered ==
    (Started /\ ~str_viewpktype.is_none) =>
        LET parsed == ParseViewSpec(str_viewpktype.s)
            n      == Len(parsed)
        IN  /\ WellFormed(parsed) =>
                /\ Len(app.classes) = PreViewCount + n
                /\ \A k \in 1..n :
                       LET cls == app.classes[PreViewCount + k]
                           e   == parsed[k]
                       IN  /\ cls.model.name = e[1]
                           /\ Len(cls.model.pk) = 1
                           /\ cls.model.pk[1].name = e[2]
                           /\ ItemRulesOf(cls) # {}
                           /\ \A r \in ItemRulesOf(cls) :
                                  r.rule = "/" \o Lower(e[1]) \o "/<" \o e[3]
                                           \o ":resource_id>"
                           /\ cls.model.attrs =
                                  { [name |-> c, nullable |-> TRUE] :
                                        c \in ReflectedColumns(e[1]) \ {e[2]} }
            /\ str_viewpktype.s = SpecExample =>
                /\ n = 2
                /\ \E r \in app.url_map : r.rule = "/reports/<int:resource_id>"
                /\ \E r \in app.url_map : r.rule = "/logs/<string:resource_id>"

C10_Witness ==
    /\ Started
    /\ ~str_viewpktype.is_none
    /\ str_viewpktype.s = SpecExample
    /\ Len(app.classes) = PreViewCount + 2
    /\ PreViewCount > 0

====
